---------------------------- MODULE Spec2Model ----------------------------
(***************************************************************************)
(* Model of game_of_life_core (src/src/lib.rs): a fixed-size toroidal      *)
(* Game of Life grid.  A Cell is an 8-bit bitfield holding a 1-bit State   *)
(* and a 7-bit cached live-neighbour count.  Universe<W, H> owns the grid  *)
(* [[Cell; W]; H] and the two fields width and height.                     *)
(***************************************************************************)
EXTENDS Integers, Sequences, FiniteSets, TLC

(***************************************************************************)
(* Bounds of the model.                                                    *)
(***************************************************************************)
\* largest W and H explored by Spec (the call-sequence state machine)
MaxDim == 3
\* most calls (set_cell, evolve, grid) made on one universe
MaxCalls == 4
\* largest W and H explored by SpecSeeded (a seeded universe, then evolved)
MaxSeedDim == 4
\* grids of at most this many cells are seeded in every possible way
MaxDenseCells == 9
\* larger grids are seeded with at most this many cells Alive
MaxSeedAlive == 3
\* most generations a seeded universe is evolved through
MaxGenerations == 2

(***************************************************************************)
(* Program constants.                                                      *)
(***************************************************************************)
\* largest value of the 7-bit field live_neighbors (B7)
B7Max == 127
\* largest value of the u8 returned by live_neighbor_count
U8Max == 255

VARIABLES
    W,          \* const generic parameter W of Universe<W, H>
    H,          \* const generic parameter H
    grid,       \* field grid: row index -> column index -> Cell
    width,      \* field width
    height,     \* field height
    panicked,   \* TRUE once a call has panicked (index out of bounds, ...)
    last,       \* name of the call that produced the current state
    snapshot,   \* the value returned by the most recent grid() call
    ncalls,     \* number of calls made on the universe so far
    pre,        \* the cell states when the most recent evolve started
    phase,      \* "stable", or the loop of evolve that is running
    cursor      \* the cell k = row * width + column that loop is at

vars == <<W, H, grid, width, height, panicked, last, snapshot,
          ncalls, pre, phase, cursor>>

(***************************************************************************)
(* State and Cell                                                          *)
(***************************************************************************)
State == {"Dead", "Alive"}

\* `state as u8`: the discriminant of the enum (Dead = 0, Alive = 1)
StateAsU8(s) == IF s = "Alive" THEN 1 ELSE 0

\* Cell::new() generated by #[bitfield]: every bit zero
CellNew == [state |-> "Dead", live_neighbors |-> 0]

\* impl Default for Cell
CellDefault == CellNew

\* Cell::set_state
SetState(cell, s) == [cell EXCEPT !.state = s]

\* Cell::is_alive
IsAlive(cell) == cell.state = "Alive"

\* Cell::evolve without the arm (State::Alive, 2)
CellEvolveSurviveOn3(cell) ==
    LET state == IF cell.state = "Dead" /\ cell.live_neighbors = 3
                     THEN "Alive"
                 ELSE IF cell.state = "Alive" /\ cell.live_neighbors = 3
                     THEN "Alive"
                 ELSE "Dead"
    IN  SetState(cell, state)

\* a rule whose birth arm takes every count up to 3
CellEvolveBirthUpTo3(cell) ==
    [cell EXCEPT !.state =
        IF \/ (cell.state = "Alive" /\ cell.live_neighbors \in {2, 3})
           \/ (cell.state = "Dead" /\ cell.live_neighbors <= 3)
            THEN "Alive" ELSE "Dead"]


\* Cell::evolve: the match on (state, live_neighbors)
CellEvolve(cell) ==
    LET state == IF cell.state = "Dead" /\ cell.live_neighbors = 3
                     THEN "Alive"
                 ELSE IF \/ (cell.state = "Alive" /\ cell.live_neighbors = 2)
                         \/ (cell.state = "Alive" /\ cell.live_neighbors = 3)
                     THEN "Alive"
                 ELSE "Dead"
    IN  SetState(cell, state)

(***************************************************************************)
(* Universe                                                                *)
(***************************************************************************)
\* Universe::new with the two dimensions exchanged
NewTransposed(w, h) ==
    [ grid   |-> [r \in 0..(w - 1) |-> [c \in 0..(h - 1) |-> CellDefault]],
      width  |-> h,
      height |-> w ]

\* Universe::new
New(w, h) ==
    [ grid   |-> [r \in 0..(h - 1) |-> [c \in 0..(w - 1) |-> CellDefault]],
      width  |-> w,
      height |-> h ]

\* a grid() that rebuilds each cell from its state and drops the cached count
GridStatesOnly(g) ==
    [r \in DOMAIN g |->
        [c \in DOMAIN g[r] |-> SetState(CellNew, g[r][c].state)]]

\* Universe::grid: returns the array by value (Cell is Copy)
Grid(g) == g

\* the bounds check of self.grid[row][column]
InBounds(g, row, column) ==
    /\ row \in DOMAIN g
    /\ column \in DOMAIN g[row]

\* set_cell writing self.grid[column][row]
SetCellTransposed(g, row, column, state) ==
    IF ~InBounds(g, row, column) \/ ~InBounds(g, column, row)
        THEN [grid |-> g, fault |-> TRUE]
        ELSE [grid  |-> [g EXCEPT ![column][row] = SetState(@, state)],
              fault |-> FALSE]

\* set_cell wrapping its indices instead of panicking
SetCellWrapping(g, row, column, state) ==
    [grid  |-> [g EXCEPT ![row % Cardinality(DOMAIN g)]
                          [column % Cardinality(DOMAIN g[0])] =
                    SetState(@, state)],
     fault |-> FALSE]

\* set_cell on storage that grows to hold the index instead of panicking
SetCellGrowing(g, row, column, state) ==
    [grid  |-> [r \in DOMAIN g \cup {row} |->
                  [c \in DOMAIN g[0] \cup {column} |->
                      IF r = row /\ c = column
                          THEN SetState(IF InBounds(g, r, c)
                                            THEN g[r][c] ELSE CellDefault,
                                        state)
                          ELSE IF InBounds(g, r, c)
                                   THEN g[r][c] ELSE CellDefault]],
     fault |-> FALSE]

\* set_cell storing a fresh cell of the given state
SetCellResetting(g, row, column, state) ==
    IF ~InBounds(g, row, column)
        THEN [grid |-> g, fault |-> TRUE]
        ELSE [grid  |-> [g EXCEPT ![row][column] = SetState(CellNew, state)],
              fault |-> FALSE]


\* Universe::set_cell: index (panic when out of bounds), then set_state
SetCell(g, row, column, state) ==
    IF ~InBounds(g, row, column)
        THEN [grid |-> g, fault |-> TRUE]
        ELSE [grid  |-> [g EXCEPT ![row][column] = SetState(@, state)],
              fault |-> FALSE]

\* the loop without its `continue`: the centre pair is counted too
SkippedNever(delta_row, delta_col) == FALSE

\* `if delta_row == 0 && delta_col == 0 { continue; }`
Skipped(delta_row, delta_col) == delta_row = 0 /\ delta_col = 0

\* neighbor_row stopping at the last row instead of wrapping
NeighborRowClamped(h, row, delta_row) ==
    IF row + delta_row >= h THEN h - 1 ELSE row + delta_row

\* neighbor_col without `% self.width`
NeighborColUnwrapped(w, column, delta_col) == column + delta_col

\* neighbor_row and neighbor_col of one loop iteration
NeighborRow(h, row, delta_row) == (row + delta_row) % h
NeighborCol(w, column, delta_col) == (column + delta_col) % w

\* one loop iteration indexes outside the grid
IndexFault(g, h, w, row, column, delta_row, delta_col) ==
    /\ ~Skipped(delta_row, delta_col)
    /\ ~InBounds(g, NeighborRow(h, row, delta_row),
                    NeighborCol(w, column, delta_col))

\* what one loop iteration adds to count; an index outside the grid panics,
\* which is carried as IndexPanic, a value no u8 count can hold
IndexPanic == U8Max + 1

Added(g, h, w, row, column, delta_row, delta_col) ==
    IF Skipped(delta_row, delta_col) THEN 0
    ELSE IF ~InBounds(g, NeighborRow(h, row, delta_row),
                         NeighborCol(w, column, delta_col)) THEN IndexPanic
    ELSE StateAsU8(g[NeighborRow(h, row, delta_row)]
                    [NeighborCol(w, column, delta_col)].state)

\* some iteration of the two nested loops, delta_row over [h - 1, 0, 1] and
\* delta_col over [w - 1, 0, 1], indexes outside the grid
AnyIndexFault(g, h, w, row, column) ==
    \/ IndexFault(g, h, w, row, column, h - 1, w - 1)
    \/ IndexFault(g, h, w, row, column, h - 1, 0)
    \/ IndexFault(g, h, w, row, column, h - 1, 1)
    \/ IndexFault(g, h, w, row, column, 0, w - 1)
    \/ IndexFault(g, h, w, row, column, 0, 0)
    \/ IndexFault(g, h, w, row, column, 0, 1)
    \/ IndexFault(g, h, w, row, column, 1, w - 1)
    \/ IndexFault(g, h, w, row, column, 1, 0)
    \/ IndexFault(g, h, w, row, column, 1, 1)

\* count after the nine iterations of the two nested loops
CountSum(g, h, w, row, column) ==
      Added(g, h, w, row, column, h - 1, w - 1)
    + Added(g, h, w, row, column, h - 1, 0)
    + Added(g, h, w, row, column, h - 1, 1)
    + Added(g, h, w, row, column, 0, w - 1)
    + Added(g, h, w, row, column, 0, 0)
    + Added(g, h, w, row, column, 0, 1)
    + Added(g, h, w, row, column, 1, w - 1)
    + Added(g, h, w, row, column, 1, 0)
    + Added(g, h, w, row, column, 1, 1)

\* the u8 result; a fault when an iteration panicked on its index or count
\* would pass u8
CountResult(n) ==
    IF n > U8Max THEN [count |-> 0, fault |-> TRUE]
                 ELSE [count |-> n, fault |-> FALSE]

\* Universe::live_neighbor_count: [count, fault]; fault is a panic (usize
\* underflow of height - 1 or width - 1, index out of bounds, u8 overflow)
LiveNeighborCount(g, h, w, row, column) ==
    IF h < 1 \/ w < 1
        THEN [count |-> 0, fault |-> TRUE]
        ELSE CountResult(CountSum(g, h, w, row, column))

\* a setter that takes a count already cached for valid and keeps it
SetLiveNeighborsOnce(cell, n) ==
    IF n > B7Max
        THEN [cell |-> cell, fault |-> TRUE]
        ELSE [cell  |-> IF cell.live_neighbors # 0 THEN cell
                        ELSE [cell EXCEPT !.live_neighbors = n],
              fault |-> FALSE]

\* Cell::set_live_neighbors generated by #[bitfield]: panics when the value
\* does not fit the 7-bit field
SetLiveNeighbors(cell, n) ==
    IF n > B7Max
        THEN [cell |-> cell, fault |-> TRUE]
        ELSE [cell |-> [cell EXCEPT !.live_neighbors = n], fault |-> FALSE]

\* the grid with the result set = [cell, fault] of a setter put at
\* (row, column)
StoreCell(g, row, column, set) ==
    [grid |-> [g EXCEPT ![row][column] = set.cell], fault |-> set.fault]

\* StoreCount with the cell evolved as soon as its count is stored (one pass
\* over the grid instead of two)
StoreCountInPlace(g, row, column, n) ==
    IF n.fault \/ ~InBounds(g, row, column)
        THEN [grid |-> g, fault |-> TRUE]
        ELSE [grid  |-> [g EXCEPT ![row][column] =
                           CellEvolve(SetLiveNeighbors(@, n.count).cell)],
              fault |-> SetLiveNeighbors(g[row][column], n.count).fault]

\* self.grid[row][column].set_live_neighbors(live_neighbors): the store of
\* one count n = [count, fault] returned by live_neighbor_count
StoreCount(g, row, column, n) ==
    IF n.fault \/ ~InBounds(g, row, column)
        THEN [grid |-> g, fault |-> TRUE]
        ELSE StoreCell(g, row, column,
                       SetLiveNeighbors(g[row][column], n.count))

\* First loop of Universe::evolve: cells k = row * width + column in row-major
\* order; each count is read from the grid as it is at that point of the loop.
\* acc = [grid, fault].
RECURSIVE CountPass(_, _, _, _)
CountPass(acc, h, w, k) ==
    IF acc.fault \/ k >= h * w THEN acc
    ELSE CountPass(StoreCount(acc.grid, k \div w, k % w,
                              LiveNeighborCount(acc.grid, h, w, k \div w, k % w)),
                   h, w, k + 1)

\* Second loop of Universe::evolve: cell.evolve() on every cell
EvolvePass(acc) ==
    IF acc.fault THEN acc
    ELSE [grid  |-> [r \in DOMAIN acc.grid |->
                       [c \in DOMAIN acc.grid[r] |-> CellEvolve(acc.grid[r][c])]],
          fault |-> FALSE]

\* Universe::evolve
Evolve(g, h, w) ==
    EvolvePass(CountPass([grid |-> g, fault |-> FALSE], h, w, 0))

\* Universe::state_grid (test helper): the states alone
StateGrid(g) == [r \in DOMAIN g |-> [c \in DOMAIN g[r] |-> g[r][c].state]]

(***************************************************************************)
(* The driver's seed (examples/std_print_universe.rs): every cell, in      *)
(* row-major order, is set by set_cell to Alive or Dead as rand::random()  *)
(* says.  bits[k] is the outcome drawn for cell k = row * w + column.      *)
(***************************************************************************)
RECURSIVE SeedFrom(_, _, _, _, _)
SeedFrom(g, h, w, k, bits) ==
    IF k >= h * w THEN [grid |-> g, fault |-> FALSE]
    ELSE
        LET r == SetCell(g, k \div w, k % w,
                         IF bits[k] THEN "Alive" ELSE "Dead")
        IN  IF r.fault THEN r ELSE SeedFrom(r.grid, h, w, k + 1, bits)

Seed(g, h, w, bits) == SeedFrom(g, h, w, 0, bits)

\* the subsets of S with at most k elements
RECURSIVE SubsetsUpTo(_, _)
SubsetsUpTo(S, k) ==
    IF k = 0 THEN {{}}
    ELSE LET smaller == SubsetsUpTo(S, k - 1)
         IN  smaller \cup {T \cup {x} : T \in smaller, x \in S}

\* the outcomes of the n draws of rand::random() explored by the model: every
\* outcome for a grid of at most MaxDenseCells cells, else those with at most
\* MaxSeedAlive cells drawn Alive
RandomOutcomes(n) ==
    IF n <= MaxDenseCells
        THEN [0..(n - 1) -> BOOLEAN]
        ELSE {[k \in 0..(n - 1) |-> k \in A] :
                A \in SubsetsUpTo(0..(n - 1), MaxSeedAlive)}

(***************************************************************************)
(* The call-sequence state machine: a caller constructs one universe and   *)
(* then calls set_cell, evolve and grid in any order.                      *)
(***************************************************************************)
\* the state after Universe::<w, h>::new()
Constructed(w, h) ==
    /\ W = w
    /\ H = h
    /\ grid = New(w, h).grid
    /\ width = New(w, h).width
    /\ height = New(w, h).height
    /\ panicked = FALSE
    /\ last = "new"
    /\ snapshot = << >>
    /\ ncalls = 0
    /\ pre = << >>
    /\ phase = "stable"
    /\ cursor = 0

Init == \E w \in 1..MaxDim, h \in 1..MaxDim : Constructed(w, h)

\* a call of set_cell(row, column, state)
SetCellStep(row, column, state) ==
    /\ ~panicked
    /\ phase = "stable"
    /\ ncalls < MaxCalls
    /\ LET r == SetCell(grid, row, column, state)
       IN  /\ grid' = r.grid
           /\ panicked' = r.fault
    /\ last' = "set_cell"
    /\ ncalls' = ncalls + 1
    /\ UNCHANGED <<W, H, width, height, snapshot, pre, phase, cursor>>

\* set_cell with any arguments; row = H and column = W are out of range
SetCellCall ==
    \E row \in 0..H, column \in 0..W, state \in State :
        SetCellStep(row, column, state)

\* a call of evolve(), from its start to its return
EvolveCall ==
    /\ ~panicked
    /\ phase = "stable"
    /\ ncalls < MaxCalls
    /\ \E r \in {Evolve(grid, height, width)} :
          /\ grid' = r.grid
          /\ panicked' = r.fault
    /\ pre' = StateGrid(grid)
    /\ last' = "evolve"
    /\ ncalls' = ncalls + 1
    /\ UNCHANGED <<W, H, width, height, snapshot, phase, cursor>>

\* a call of grid()
GridCall ==
    /\ ~panicked
    /\ phase = "stable"
    /\ ncalls < MaxCalls
    /\ snapshot' = Grid(grid)
    /\ last' = "grid"
    /\ ncalls' = ncalls + 1
    /\ UNCHANGED <<W, H, grid, width, height, panicked, pre, phase, cursor>>

Next == SetCellCall \/ EvolveCall \/ GridCall

Spec == Init /\ [][Next]_vars

(***************************************************************************)
(* A seeded universe: constructed, seeded once by the driver's seed, then  *)
(* evolved generation after generation.                                    *)
(***************************************************************************)
InitSeeded == \E w \in 1..MaxSeedDim, h \in 1..MaxSeedDim : Constructed(w, h)

\* the driver's call seed(&mut matrix), right after construction
SeedCall ==
    /\ ~panicked
    /\ phase = "stable"
    /\ last = "new"
    /\ \E bits \in RandomOutcomes(H * W) :
          LET r == Seed(grid, H, W, bits)
          IN  /\ grid' = r.grid
              /\ panicked' = r.fault
    /\ last' = "seed"
    /\ UNCHANGED <<W, H, width, height, snapshot, ncalls, pre, phase, cursor>>

\* one generation of the driver's loop, once the universe is seeded
Generation ==
    /\ last # "new"
    /\ ncalls < MaxGenerations
    /\ EvolveCall

NextSeeded == SeedCall \/ Generation

SpecSeeded == InitSeeded /\ [][NextSeeded]_vars

(***************************************************************************)
(* The same driver with evolve() taken one loop iteration at a time: the   *)
(* first loop stores one count per step, the second evolves one cell per   *)
(* step, both over the cells k = row * width + column in row-major order.  *)
(***************************************************************************)

\* largest W and H of the universes evolved step by step
MaxStepDim == 3

InitSteps == \E w \in 1..MaxStepDim, h \in 1..MaxStepDim : Constructed(w, h)

\* a loop variable that is never stepped
AdvanceStuck(k) == k


\* the loop variable stepping to the next cell
Advance(k) == k + 1

\* a second loop that counts the neighbours again before evolving the cell
UpdateCellRecount(g, row, column) ==
    [g EXCEPT ![row][column] =
        CellEvolve(SetLiveNeighbors(@,
            LiveNeighborCount(g, Cardinality(DOMAIN g),
                              Cardinality(DOMAIN g[0]),
                              row, column).count).cell)]

\* one iteration of the second loop: cell.evolve() on the cell at
\* (row, column)
UpdateCell(g, row, column) == [g EXCEPT ![row][column] = CellEvolve(@)]

\* evolve() is entered
EvolveStart ==
    /\ ~panicked
    /\ phase = "stable"
    /\ last # "new"
    /\ ncalls < MaxGenerations
    /\ phase' = "count"
    /\ cursor' = 0
    /\ pre' = StateGrid(grid)
    /\ UNCHANGED <<W, H, grid, width, height, panicked, last, snapshot,
                   ncalls>>

\* one iteration of the first loop; the last one enters the second loop
CountStep ==
    /\ ~panicked
    /\ phase = "count"
    /\ cursor < height * width
    /\ \E r \in {StoreCount(grid, cursor \div width, cursor % width,
                            LiveNeighborCount(grid, height, width,
                                              cursor \div width,
                                              cursor % width))} :
          /\ grid' = r.grid
          /\ panicked' = r.fault
    /\ IF Advance(cursor) = height * width
           THEN phase' = "update" /\ cursor' = 0
           ELSE phase' = phase /\ cursor' = Advance(cursor)
    /\ UNCHANGED <<W, H, width, height, last, snapshot, ncalls, pre>>

\* one iteration of the second loop; the last one returns from evolve()
UpdateStep ==
    /\ ~panicked
    /\ phase = "update"
    /\ cursor < height * width
    /\ grid' = UpdateCell(grid, cursor \div width, cursor % width)
    /\ IF Advance(cursor) = height * width
           THEN /\ phase' = "stable" /\ cursor' = 0
                /\ last' = "evolve" /\ ncalls' = ncalls + 1
           ELSE /\ phase' = phase /\ cursor' = Advance(cursor)
                /\ UNCHANGED <<last, ncalls>>
    /\ UNCHANGED <<W, H, width, height, panicked, snapshot, pre>>

NextSteps == SeedCall \/ EvolveStart \/ CountStep \/ UpdateStep

SpecSteps == InitSteps /\ [][NextSteps]_vars

\* the two loops run in one thread with nothing to wait for: an iteration
\* that can be taken is taken
SpecStepsFair ==
    SpecSteps /\ WF_vars(CountStep) /\ WF_vars(UpdateStep)

(***************************************************************************)
(* Reference definitions used by the properties: the synchronous B3/S23    *)
(* step on a torus, written without the code's delta arrays.               *)
(***************************************************************************)
\* the 8 offsets of the Moore neighbourhood
MooreOffsets == {d \in {-1, 0, 1} \X {-1, 0, 1} : d # <<0, 0>>}

\* number of Alive cells among the 8 wrapped neighbour positions of (r, c) in
\* the state grid sg of h rows and w columns (a position reached by several
\* offsets is counted once per offset)
RefCount(sg, h, w, r, c) ==
    Cardinality({d \in MooreOffsets :
                    sg[(r + d[1] + h) % h][(c + d[2] + w) % w] = "Alive"})

\* the B3/S23 rule
RefRule(s, n) ==
    IF (s = "Alive" /\ n \in {2, 3}) \/ (s = "Dead" /\ n = 3)
        THEN "Alive" ELSE "Dead"

\* one synchronous generation: every count is taken in sg itself
RefStep(sg, h, w) ==
    [r \in 0..(h - 1) |->
        [c \in 0..(w - 1) |-> RefRule(sg[r][c], RefCount(sg, h, w, r, c))]]

\* the step just taken is a call of evolve()
Evolved == last' = "evolve" /\ ncalls' = ncalls + 1

\* the cells of the universe
Cells == (0..(H - 1)) \X (0..(W - 1))

\* the cells that are Alive
AliveCells == {p \in Cells : IsAlive(grid[p[1]][p[2]])}

(***************************************************************************)
(* C1: for W, H >= 2, one call of evolve produces the grid in which each   *)
(* cell is Alive exactly when the B3/S23 rule says so for its state and    *)
(* the number of Alive cells among its 8 wrapped neighbour positions, all  *)
(* counted in the grid as it was before the call.                          *)
(***************************************************************************)
C1_EvolveIsReferenceStep ==
    [][(W >= 2 /\ H >= 2 /\ Evolved) =>
          /\ ~panicked'
          /\ StateGrid(grid') = RefStep(StateGrid(grid), H, W)]_vars

\* an evolve has run on a grid where a birth or survival happened next to a
\* crowded cell: some cell is Alive, some Dead cell had more than 3 neighbours
C1_Witness ==
    /\ W >= 2 /\ H >= 2
    /\ last = "evolve" /\ ~panicked
    /\ \E p \in Cells : IsAlive(grid[p[1]][p[2]])
                        /\ grid[p[1]][p[2]].live_neighbors = 3
    /\ \E p \in Cells : ~IsAlive(grid[p[1]][p[2]])
                        /\ grid[p[1]][p[2]].live_neighbors > 3

\* The sum over offset positions that live_neighbor_count is compared with.
\* the 8 positions (i, j) of the offset arrays other than the centre (2, 2)
OffsetPositions == {q \in (1..3) \X (1..3) : q # <<2, 2>>}

\* the offset array {n-1, 0, 1}
OffsetArray(n) == <<n - 1, 0, 1>>

\* number of Alive cells over the 8 wrapped offset positions
OffsetSum(g, h, w, row, column) ==
    Cardinality({q \in OffsetPositions :
        g[(row + OffsetArray(h)[q[1]]) % h]
         [(column + OffsetArray(w)[q[2]]) % w].state = "Alive"})

(***************************************************************************)
(* C2: for W, H >= 2 and every in-range (row, column), live_neighbor_count *)
(* is the number of Alive cells over the 8 offset pairs of                 *)
(* {H-1, 0, 1} x {W-1, 0, 1} other than the centre pair, each wrapped      *)
(* mod H and mod W; the cell's own state is never counted (a lone Alive    *)
(* cell has count 0) and the result is in 0..8.                            *)
(***************************************************************************)
C2_CountIsOffsetSum ==
    (W >= 2 /\ H >= 2 /\ ~panicked) =>
        \A p \in Cells :
            \A n \in {LiveNeighborCount(grid, height, width, p[1], p[2])} :
                /\ ~n.fault
                /\ n.count = OffsetSum(grid, H, W, p[1], p[2])
                /\ n.count \in 0..8
                /\ \A s \in State \ {grid[p[1]][p[2]].state} :
                      LiveNeighborCount(SetCell(grid, p[1], p[2], s).grid,
                                        height, width, p[1], p[2]) = n
                /\ (AliveCells = {p} => n.count = 0)

\* a lone Alive cell in a grid of at least 2 x 2: its own count is 0 while a
\* neighbour counts it
C2_Witness ==
    /\ W >= 2 /\ H >= 2 /\ ~panicked
    /\ \E p \in Cells :
          /\ AliveCells = {p}
          /\ LiveNeighborCount(grid, height, width, p[1], p[2]).count = 0
          /\ \E q \in Cells :
                LiveNeighborCount(grid, height, width, q[1], q[2]).count > 0

(***************************************************************************)
(* C3: in any state reachable by new / set_cell / evolve, an in-range      *)
(* set_cell(row, column, s) followed by grid() shows state s at            *)
(* (row, column) and leaves the state of every other cell as it was.       *)
(***************************************************************************)
C3_SetCellWritesOneCell ==
    [][\A row \in 0..(H - 1), column \in 0..(W - 1), s \in State :
          SetCellStep(row, column, s) =>
             /\ ~panicked'
             /\ Grid(grid')[row][column].state = s
             /\ \A p \in Cells :
                   p # <<row, column>> =>
                     Grid(grid')[p[1]][p[2]].state = grid[p[1]][p[2]].state]_vars

\* a set_cell made after an evolve (some cached count is not 0) in a grid
\* with more than one cell and a cell of each state
C3_Witness ==
    /\ last = "set_cell" /\ ~panicked
    /\ W * H > 1
    /\ \E p \in Cells : grid[p[1]][p[2]].live_neighbors > 0
    /\ AliveCells # {} /\ AliveCells # Cells

(***************************************************************************)
(* C4: Universe::new() yields a universe whose every cell is Dead (equal   *)
(* to Cell::default(), cached count 0), with width = W and height = H.     *)
(***************************************************************************)
C4_NewIsAllDead ==
    last = "new" =>
        /\ width = W /\ height = H
        /\ DOMAIN grid = 0..(H - 1)
        /\ \A r \in DOMAIN grid :
              /\ DOMAIN grid[r] = 0..(W - 1)
              /\ \A c \in DOMAIN grid[r] :
                    /\ grid[r][c] = CellDefault
                    /\ grid[r][c].state = "Dead"
                    /\ ~IsAlive(grid[r][c])
                    /\ grid[r][c].live_neighbors = 0
        /\ ~panicked

\* a freshly constructed universe that is not square
C4_Witness == last = "new" /\ W = 3 /\ H = 2 /\ ncalls = 0

\* The four corner cells.
Corners == {<<0, 0>>, <<0, W - 1>>, <<H - 1, 0>>, <<H - 1, W - 1>>}

(***************************************************************************)
(* C5: for W, H >= 3, in a grid whose only Alive cells are the four        *)
(* corners, live_neighbor_count at each corner is 3, and on the 3 x 3 grid *)
(* the count of the centre cell is 4.                                      *)
(***************************************************************************)
C5_CornersWrap ==
    (W >= 3 /\ H >= 3 /\ ~panicked /\ AliveCells = Corners) =>
        /\ \A p \in Corners :
              LiveNeighborCount(grid, height, width, p[1], p[2])
                  = [count |-> 3, fault |-> FALSE]
        /\ (W = 3 /\ H = 3) =>
              LiveNeighborCount(grid, height, width, 1, 1)
                  = [count |-> 4, fault |-> FALSE]

\* the four corners have been set Alive, nothing else
C5_Witness ==
    /\ W >= 3 /\ H >= 3 /\ ~panicked
    /\ AliveCells = Corners
    /\ last = "set_cell"

\* The grids of tests::test_evolution_with_mutated_logic_2.
\* dimension of the universe of tests::test_evolution_with_mutated_logic_2
BlockTestDim == 4

StatesWithAlive(A) ==
    [r \in 0..(H - 1) |->
        [c \in 0..(W - 1) |-> IF <<r, c>> \in A THEN "Alive" ELSE "Dead"]]

LShape == StatesWithAlive({<<0, 0>>, <<0, 1>>, <<1, 0>>})

Block == StatesWithAlive({<<0, 0>>, <<0, 1>>, <<1, 0>>, <<1, 1>>})

(***************************************************************************)
(* C6: on the 4 x 4 grid with exactly (0,0), (0,1), (1,0) Alive, one       *)
(* evolve yields exactly the block (0,0), (0,1), (1,0), (1,1), and every   *)
(* further evolve leaves the cell states exactly that block.               *)
(***************************************************************************)
C6_LShapeBecomesStableBlock ==
    [][(/\ W = BlockTestDim /\ H = BlockTestDim
        /\ Evolved
        /\ StateGrid(grid) \in {LShape, Block}) =>
           /\ ~panicked'
           /\ StateGrid(grid') = Block]_vars

\* the block after two evolves of a seeded 4 x 4 universe; cell (0,0) was
\* counted with 3 neighbours by the second evolve, so the first had already
\* produced the block
C6_Witness ==
    /\ W = BlockTestDim /\ H = BlockTestDim
    /\ last = "evolve" /\ ncalls = 2 /\ ~panicked
    /\ StateGrid(grid) = Block
    /\ grid[0][0].live_neighbors = 3
    /\ grid[2][2].live_neighbors = 1

(***************************************************************************)
(* C8: for W = 1 and H = 1, live_neighbor_count(0, 0) returns 8 when the   *)
(* single cell is Alive and 0 when it is Dead.                             *)
(***************************************************************************)
C8_SingleCellCountsItself8 ==
    (W = 1 /\ H = 1 /\ ~panicked) =>
        LiveNeighborCount(grid, height, width, 0, 0)
            = [count |-> 8 * StateAsU8(grid[0][0].state), fault |-> FALSE]

(***************************************************************************)
(* C9: for W, H >= 1 and every state reachable by new / in-range set_cell  *)
(* / evolve, the calls new(), grid() and evolve() complete without fault:  *)
(* no neighbour index leaves the grid, H - 1 and W - 1 do not underflow,   *)
(* the count does not pass u8 and the stored count fits the 7-bit field.   *)
(***************************************************************************)
C9_NoFaultButSetCell ==
    /\ last \in {"new", "grid", "evolve"} => ~panicked
    /\ ~panicked =>
          /\ height - 1 >= 0 /\ width - 1 >= 0
          /\ \A p \in Cells :
                \A n \in {LiveNeighborCount(grid, height, width, p[1], p[2])} :
                    /\ ~AnyIndexFault(grid, height, width, p[1], p[2])
                    /\ ~n.fault
                    /\ n.count <= U8Max
                    /\ ~SetLiveNeighbors(grid[p[1]][p[2]], n.count).fault
                    /\ grid[p[1]][p[2]].live_neighbors <= B7Max

\* an evolve has returned after storing the largest count, 8
C9_Witness ==
    /\ last = "evolve" /\ ~panicked
    /\ \E p \in Cells : grid[p[1]][p[2]].live_neighbors = 8

(***************************************************************************)
(* C10: set_cell(row, column, state) with row >= H or column >= W panics   *)
(* and modifies no cell: the grid after the call is the grid before it.    *)
(***************************************************************************)
C10_OutOfRangeSetCellPanics ==
    [][\A row \in 0..H, column \in 0..W, s \in State :
          ((row >= H \/ column >= W) /\ SetCellStep(row, column, s)) =>
              /\ panicked'
              /\ grid' = grid]_vars

\* an out-of-range set_cell has panicked on a universe that had been written
\* and evolved before
C10_Witness ==
    /\ last = "set_cell" /\ panicked
    /\ AliveCells # {}
    /\ \E p \in Cells : grid[p[1]][p[2]].live_neighbors > 0

\* the step is a call of the named operation
Called(name) == last' = name /\ ncalls' = ncalls + 1

HasShape(g, h, w) ==
    /\ DOMAIN g = 0..(h - 1)
    /\ \A r \in DOMAIN g : DOMAIN g[r] = 0..(w - 1)

\* the fields, the cells and the last snapshot have the dimensions W and H
DimensionsHold ==
    /\ width = W /\ height = H
    /\ HasShape(grid, H, W)
    /\ snapshot # << >> => HasShape(snapshot, H, W)

(***************************************************************************)
(* C12: in every state reachable by new / set_cell / evolve / grid, width  *)
(* is W, height is H, and the cells and every snapshot returned by grid()  *)
(* are exactly H rows of exactly W cells; no operation changes width,      *)
(* height, W or H.                                                         *)
(***************************************************************************)
C12_DimensionsAreFixed ==
    [][/\ DimensionsHold /\ DimensionsHold'
       /\ W' = W /\ H' = H
       /\ width' = width /\ height' = height]_vars

\* a universe that is not square has been written, evolved and read, and
\* has survived a set_cell outside its range
C12_Witness ==
    /\ W # H
    /\ panicked
    /\ snapshot # << >>
    /\ \E p \in Cells : grid[p[1]][p[2]].live_neighbors > 0

\* the reference universe stores states only: its cells carry no count
StatesOnly(sg) ==
    [r \in DOMAIN sg |-> [c \in DOMAIN sg[r] |-> SetState(CellNew, sg[r][c])]]

\* one reference generation: every count is recomputed when it is needed,
\* from the frozen copy of the generation before
OnTheFlyFrom(frozen, h, w) ==
    [r \in DOMAIN frozen |->
        [c \in DOMAIN frozen[r] |->
            RefRule(frozen[r][c].state,
                    LiveNeighborCount(frozen, h, w, r, c).count)]]

OnTheFlyStep(sg, h, w) == OnTheFlyFrom(StatesOnly(sg), h, w)

(***************************************************************************)
(* C13: caching the neighbour counts in the cells is unobservable in the   *)
(* cell states. Under the mapping that forgets the cached counts, every    *)
(* step of the universe is the same step of a reference universe that      *)
(* stores states only: an evolve is one generation whose counts are        *)
(* recomputed on the fly from a frozen copy of the states before it, an    *)
(* in-range set_cell writes one state, grid() changes nothing; the counts  *)
(* left stale by a set_cell between two evolves make no difference.        *)
(***************************************************************************)
C13_CacheIsUnobservable ==
    [][/\ Called("evolve") =>
              /\ ~panicked'
              /\ StateGrid(grid') = OnTheFlyStep(StateGrid(grid), H, W)
       /\ \A row \in 0..(H - 1), column \in 0..(W - 1), s \in State :
              SetCellStep(row, column, s) =>
                  StateGrid(grid') =
                      [StateGrid(grid) EXCEPT ![row][column] = s]
       /\ Called("grid") => StateGrid(grid') = StateGrid(grid)]_vars

\* a later evolve of a universe with an Alive cell has stored a count
C13_Witness ==
    /\ last = "evolve" /\ ~panicked
    /\ ncalls >= 3
    /\ \E p \in Cells : pre[p[1]][p[2]] = "Alive"
    /\ \E p \in Cells : grid[p[1]][p[2]].live_neighbors > 0

\* the position (row, column) of the cell k of the row-major order
At(k) == <<k \div W, k % W>>

\* the count of the cell at p in the cells g
CountAt(g, p) == LiveNeighborCount(g, height, width, p[1], p[2]).count

(***************************************************************************)
(* C14: the two passes of evolve, one cell per step. Frozen is the states  *)
(* the evolve started from. No state is changed until all W * H counts     *)
(* are stored: a step of the first pass changes only the cached count of   *)
(* the cell it is at, to the count of that cell in Frozen. A step of the   *)
(* second pass changes only the state of the cell it is at, to the rule    *)
(* applied to that cell's own state in Frozen and its own stored count,    *)
(* itself the count in Frozen; so no transition reads a state the pass has *)
(* already updated, and the evolve returns the cells that evolve() taken   *)
(* as a whole computes.                                                    *)
(***************************************************************************)
C14_TwoPassOrdering ==
    [][\A frozen \in {StatesOnly(pre')}, p \in {At(cursor)} :
          /\ phase' = "count" => StateGrid(grid') = pre'
          /\ phase = "count" =>
                /\ ~panicked'
                /\ StateGrid(grid') = StateGrid(grid)
                /\ \A q \in Cells \ {p} : grid'[q[1]][q[2]] = grid[q[1]][q[2]]
                /\ grid'[p[1]][p[2]].live_neighbors = CountAt(frozen, p)
          /\ (phase = "count" /\ phase' = "update") =>
                /\ cursor = W * H - 1
                /\ \A q \in Cells :
                      /\ grid'[q[1]][q[2]].state = pre[q[1]][q[2]]
                      /\ grid'[q[1]][q[2]].live_neighbors = CountAt(frozen, q)
          /\ phase = "update" =>
                /\ \A q \in Cells \ {p} : grid'[q[1]][q[2]] = grid[q[1]][q[2]]
                /\ grid[p[1]][p[2]].state = pre[p[1]][p[2]]
                /\ grid[p[1]][p[2]].live_neighbors = CountAt(frozen, p)
                /\ grid'[p[1]][p[2]].live_neighbors =
                       grid[p[1]][p[2]].live_neighbors
                /\ grid'[p[1]][p[2]].state =
                       RefRule(pre[p[1]][p[2]],
                               grid[p[1]][p[2]].live_neighbors)
          /\ (phase = "update" /\ phase' = "stable") =>
                /\ cursor = W * H - 1
                /\ grid' = Evolve(frozen, height, width).grid]_vars

\* the second pass of a second generation is under way: a cell it has
\* passed has changed state, and a cell still to come will change state
C14_Witness ==
    /\ phase = "update" /\ ncalls >= 1
    /\ W >= 2 /\ H >= 2
    /\ \E k \in 0..(cursor - 1) :
          grid[At(k)[1]][At(k)[2]].state # pre[At(k)[1]][At(k)[2]]
    /\ \E k \in cursor..(W * H - 1) :
          RefRule(pre[At(k)[1]][At(k)[2]],
                  grid[At(k)[1]][At(k)[2]].live_neighbors)
              # pre[At(k)[1]][At(k)[2]]

\* 1 when the cell at (row, column) of the cells is Alive, else 0
Live(row, column) == StateAsU8(grid[row][column].state)

(***************************************************************************)
(* C15: a dimension of 1 does not alter the neighbour formula: the count   *)
(* still sums all 8 offset pairs other than the centre pair. In a grid of  *)
(* one row and W >= 3 columns the cell counts itself twice (offsets        *)
(* (-1, 0) and (+1, 0)) and each of its two in-row neighbours three times; *)
(* in a grid of one column and H >= 3 rows likewise. A lone Alive cell     *)
(* has count 2.                                                            *)
(***************************************************************************)
C15_LineCountsSelfTwice ==
    /\ (~panicked /\ H = 1 /\ W >= 3) =>
          \A c \in 0..(W - 1) :
              LiveNeighborCount(grid, height, width, 0, c) =
                  [count |-> 2 * Live(0, c)
                               + 3 * Live(0, (c + W - 1) % W)
                               + 3 * Live(0, (c + 1) % W),
                   fault |-> FALSE]
    /\ (~panicked /\ W = 1 /\ H >= 3) =>
          \A r \in 0..(H - 1) :
              LiveNeighborCount(grid, height, width, r, 0) =
                  [count |-> 2 * Live(r, 0)
                               + 3 * Live((r + H - 1) % H, 0)
                               + 3 * Live((r + 1) % H, 0),
                   fault |-> FALSE]

\* the loops of evolve() step through the cells 0 .. W * H - 1 in turn: the
\* first from the entry of evolve(), the second from the end of the first,
\* the return from the end of the second
LoopsInTurn ==
    /\ cursor < W * H
    /\ phase = "stable" =>
          \/ phase' = "stable"
          \/ phase' = "count" /\ cursor' = 0
    /\ phase = "count" =>
          IF cursor = W * H - 1
              THEN phase' = "update" /\ cursor' = 0
              ELSE phase' = "count" /\ cursor' = cursor + 1
    /\ phase = "update" =>
          IF cursor = W * H - 1
              THEN phase' = "stable" /\ Called("evolve")
              ELSE phase' = "update" /\ cursor' = cursor + 1

(***************************************************************************)
(* C16: evolve() always terminates: an evolve that has started takes       *)
(* W * H count steps, then W * H state-update steps, and then is back in   *)
(* the stable phase, having returned.                                      *)
(***************************************************************************)
C16_EvolveTerminates ==
    /\ [][LoopsInTurn]_vars
    /\ (phase # "stable") ~> (phase = "stable" /\ last = "evolve")

\* a second evolve of a universe of several cells has returned
C16_Witness ==
    /\ phase = "stable" /\ last = "evolve" /\ ~panicked
    /\ ncalls >= 2
    /\ W * H >= 4

(***************************************************************************)
(* C17: the all-Dead grid is absorbing under evolve: for every W, H >= 1,  *)
(* an evolve of a universe whose cells are all Dead leaves them all Dead   *)
(* (so they stay Dead until a set_cell(.., Alive)); and a 3 x 3 grid with  *)
(* only (0, 0) Alive is all Dead after one evolve.                         *)
(***************************************************************************)
C17_AllDeadIsAbsorbing ==
    [][/\ (Called("evolve") /\ AliveCells = {}) =>
              /\ ~panicked'
              /\ AliveCells' = {}
       /\ (Called("evolve") /\ W = 3 /\ H = 3
             /\ AliveCells = {<<0, 0>>}) =>
              /\ ~panicked'
              /\ AliveCells' = {}
       /\ (AliveCells = {} /\ AliveCells' # {}) =>
              \E p \in Cells : SetCellStep(p[1], p[2], "Alive")]_vars

\* the 3 x 3 universe died out at its first evolve and has been evolved
\* again
C17_Witness ==
    /\ W = 3 /\ H = 3
    /\ last = "evolve" /\ ~panicked
    /\ ncalls >= 3
    /\ AliveCells = {}
    /\ pre = [r \in 0..2 |-> [c \in 0..2 |-> "Dead"]]
    /\ \A p \in Cells : grid[p[1]][p[2]].live_neighbors = 0

(***************************************************************************)
(* C18: the snapshot returned by grid() is determined by the cell states   *)
(* alone: an evolve that leaves every state as it was leaves the snapshot  *)
(* grid() returns as it was, equal as Cell values.                         *)
(***************************************************************************)
C18_SnapshotFollowsStates ==
    [][(Called("evolve") /\ StateGrid(grid') = StateGrid(grid)) =>
           Grid(grid') = Grid(grid)]_vars

(***************************************************************************)
(* C19: the cached-count invariant. In every stable state reachable by     *)
(* new / set_cell / evolve, the cached live_neighbors of each cell is at   *)
(* most 8; it is 0 if evolve has never been called, and otherwise it is    *)
(* the live neighbour count of the cell in the states the most recent      *)
(* evolve started from. A set_cell, which changes the state bit only,      *)
(* preserves it.                                                           *)
(***************************************************************************)
C19_CachedCountInvariant ==
    /\ pre = << >> =>
          \A p \in Cells : grid[p[1]][p[2]].live_neighbors = 0
    /\ pre # << >> =>
          \A frozen \in {StatesOnly(pre)} :
              \A p \in Cells :
                  /\ grid[p[1]][p[2]].live_neighbors <= 8
                  /\ grid[p[1]][p[2]].live_neighbors = CountAt(frozen, p)

\* a set_cell after an evolve has left a cached count that is not the count
\* in the cells as they are now
C19_Witness ==
    /\ last = "set_cell" /\ ~panicked
    /\ pre # << >>
    /\ StateGrid(grid) # pre
    /\ \E p \in Cells :
          /\ grid[p[1]][p[2]].live_neighbors > 0
          /\ grid[p[1]][p[2]].live_neighbors # CountAt(grid, p)

=============================================================================
